---- MODULE Spec2Model ----
(***************************************************************************)
(* The mail store (src/src/stores/mail.ts) and the view that drives it     *)
(* (src/src/views/HomeView.vue, and its paginating variant kept in         *)
(* src/src/router/index.ts), as a state machine over the JavaScript event  *)
(* loop.                                                                   *)
(*                                                                         *)
(* Every asynchronous call is a frame on the stack of a task.  A frame     *)
(* whose pc names a remote request ("GET /messages", ...) is suspended on  *)
(* that request; any other top frame is runnable.  A runnable task runs    *)
(* alone until it suspends again (run to completion: the continuation of   *)
(* an await on an already settled promise is a microtask, and no timer,    *)
(* click or network response is delivered between microtasks).             *)
(* `await fetch(..)` followed by `await response.json()` is one request    *)
(* with one response: the code reads and writes no state between the two.  *)
(***************************************************************************)
EXTENDS Integers, Sequences, FiniteSets, TLC

\* ---------------------------------------------------------------- bounds
MaxTasks == 2          \* asynchronous calls in flight at the same time
MaxPage == 2           \* page numbers a caller asks for
MaxTimers == 2         \* interval timers the view starts

\* ---------------------------------------------------------------- values
Null == <<>>
Some(x) == <<x>>
IsNull(o) == o = <<>>
Val(o) == o[1]

Usernames == {"u1"}
Passwords == {"p1"}
DomainNames == {"d1"}
Slots == 1..MaxTasks
Pages == 1..MaxPage

\* `${username}@${selectedDomain}` and address.split('@')
Address(u, d) == <<u, d>>
LocalPart(a) == a[1]
DomainPart(a) == a[2]

\* what the remote API answers
ServerDomain(d) == [domain |-> d, id |-> <<"dom", d>>, isActive |-> TRUE]
DomainResponses == {<< >>, <<ServerDomain("d1")>>}
ServerAccount(addr) == [address |-> addr, id |-> <<"acct">> \o addr]
ServerToken(addr) == <<"jwt">> \o addr
ServerDetail(id) == [id |-> id, text |-> <<"body", id>>]
\* pages of GET /messages: hydra:member (ids, newest first) and hydra:totalItems
Pagefuls == {[members |-> <<"m1">>, totalItems |-> Null],
             [members |-> <<"m2", "m1">>, totalItems |-> Some(12)]}
Statuses == {204, 200, 401}
HttpFailures == {"http", "net"}

\* ---------------------------------------------------------------- results
NoRes == [kind |-> "none", val |-> <<>>]
Returned(v) == [kind |-> "return", val |-> <<v>>]
ReturnedUndefined == [kind |-> "return", val |-> <<>>]
Thrown(e) == [kind |-> "throw", val |-> <<e>>]

VARIABLES
    \* MailState
    messages, loading, refreshing, account, domains, token, isTokenValid,
    password, messageContents, pagination,
    \* the browser
    localStorage,
    \* asynchronous calls in progress: per task, its stack of frames
    tasks,
    \* the view; notice is the notification shown by the step just taken
    username, formPassword, selectedDomain, refreshDisabled,
    messageInterval, intervals, cooldown, currentPage, phase, notice,
    \* the network: the response delivered by the step just taken
    reply

storeVars == <<messages, loading, refreshing, account, domains, token, isTokenValid,
               password, messageContents, pagination>>
formVars == <<username, formPassword, selectedDomain>>
timerVars == <<messageInterval, intervals>>
viewVars == <<formVars, refreshDisabled, cooldown, currentPage, phase, timerVars>>
vars == <<storeVars, localStorage, tasks, viewVars, notice, reply>>

\* a step that shows no notification
Quiet == notice' = ""

\* a response of the remote API: the request it answers, how the request
\* ended ("ok", "http": a non-success status, "net": fetch rejected), and the
\* status or the body where the code reads one
Reply(req, outcome, body) == Some([req |-> req, outcome |-> outcome, body |-> body])

\* a step in which no response arrives
NoReply == reply' = Null

\* the step just taken delivered the response to req
Got(req) == ~IsNull(reply) /\ Val(reply).req = req

\* ---------------------------------------------------------------- frames
Frame(op, arg) ==
    [op |-> op, pc |-> "entry", arg |-> arg, res |-> NoRes,
     data |-> Null, list |-> << >>, idx |-> 0]

Top(stack) == stack[Len(stack)]
Live(t) == tasks[t] # << >>
TopOf(t) == Top(tasks[t])

\* pcs at which a frame waits for the outside world
ExternalPcs == {"GET /domains", "POST /accounts", "POST /token", "GET /messages",
                "GET /messages/id", "GET /me", "DELETE /accounts/id",
                "confirm", "clipboard"}

Running == {t \in Slots : Live(t) /\ TopOf(t).pc \notin ExternalPcs}
Idle == Running = {}
FreeSlot(t) == /\ ~Live(t)
               /\ \A u \in Slots : u < t => Live(u)

At(t, op, pc) == Live(t) /\ TopOf(t).op = op /\ TopOf(t).pc = pc


ReplaceTop(stack, f) == [stack EXCEPT ![Len(stack)] = f]
PopWith(stack, res) ==
    IF Len(stack) = 1 THEN << >>
    ELSE LET n == Len(stack)
         IN  SubSeq(stack, 1, n - 2) \o <<[stack[n - 1] EXCEPT !.res = res]>>

\* the top frame of task t becomes f (it suspends, or moves on)
Goto(t, f) == tasks' = [tasks EXCEPT ![t] = ReplaceTop(@, f)]

\* the top frame of task t awaits a call of op(arg)
Await(t, f, op, arg) ==
    tasks' = [tasks EXCEPT ![t] = ReplaceTop(@, f) \o <<Frame(op, arg)>>]

\* the top frame of task t finishes with res: its caller resumes, or the task ends
Finish(t, res) == tasks' = [tasks EXCEPT ![t] = PopWith(@, res)]


\* ------------------------------------------------- the store: synchronous

\* fault: a clearAccountData that drops the token and keeps the account
clearTokenOnly ==
    /\ account' = account
    /\ token' = Null
    /\ messages' = << >>
    /\ localStorage' = Null

\* clearAccountData()
clearAccountData ==
    /\ account' = Null
    /\ token' = Null
    /\ messages' = << >>
    /\ localStorage' = Null

\* the StoredData that saveToLocalStorage() serialises
StoredData ==
    [account |-> account,
     token |-> token,
     username |-> IF IsNull(account) THEN "" ELSE LocalPart(Val(account).address),
     password |-> password]

\* saveToLocalStorage()
saveToLocalStorage == localStorage' = Some(StoredData)

\* loadFromLocalStorage(), when an entry is stored: the part that writes the state
loadFromLocalStorage ==
    /\ account' = Val(localStorage).account
    /\ token' = Val(localStorage).token

\* what loadFromLocalStorage() returns
LoadedForm ==
    IF IsNull(localStorage) THEN Null
    ELSE Some([username |-> Val(localStorage).username,
               password |-> Val(localStorage).password])

\* ------------------------------------------------- the store: fetchDomains

\* fault: the fetched domains appended to the cached ones
DomainsAppended(members) ==
    domains \o [i \in 1..Len(members) |-> [domain |-> members[i].domain, id |-> members[i].id]]

\* data['hydra:member'].map(d => ({domain: d.domain, id: d.id}))
DomainsFrom(members) ==
    [i \in 1..Len(members) |-> [domain |-> members[i].domain, id |-> members[i].id]]

FetchDomains(t) ==
    /\ At(t, "fetchDomains", "entry")
    /\ Goto(t, [TopOf(t) EXCEPT !.pc = "GET /domains"])
    /\ UNCHANGED <<storeVars, localStorage, viewVars>>
    /\ Quiet
    /\ NoReply

FetchDomainsResponse(t) ==
    /\ Idle
    /\ At(t, "fetchDomains", "GET /domains")
    /\ \/ \E members \in DomainResponses :
            /\ reply' = Reply("GET /domains", "ok", Some(members))
            /\ domains' = DomainsFrom(members)
            /\ Finish(t, Returned(domains'))
       \/ \E e \in HttpFailures :
            /\ reply' = Reply("GET /domains", e, Null)
            /\ Finish(t, Thrown(e))
            /\ UNCHANGED domains
    /\ UNCHANGED <<messages, loading, refreshing, account, token, isTokenValid,
                   password, messageContents, pagination>>
    /\ UNCHANGED <<localStorage, viewVars>>
    /\ Quiet

\* ------------------------------------------------- the store: getToken

GetToken(t) ==
    /\ At(t, "getToken", "entry")
    /\ Goto(t, [TopOf(t) EXCEPT !.pc = "POST /token"])
    /\ UNCHANGED <<storeVars, localStorage, viewVars>>
    /\ Quiet
    /\ NoReply

GetTokenResponse(t) ==
    /\ Idle
    /\ At(t, "getToken", "POST /token")
    /\ \/ /\ reply' = Reply("POST /token", "ok", Some(ServerToken(TopOf(t).arg.address)))
          /\ token' = Some(ServerToken(TopOf(t).arg.address))
          /\ Finish(t, Returned(ServerToken(TopOf(t).arg.address)))
       \/ /\ reply' = Reply("POST /token", "ok", Null)
          /\ Finish(t, Thrown("no token"))
          /\ UNCHANGED token
       \/ \E e \in HttpFailures :
            /\ reply' = Reply("POST /token", e, Null)
            /\ Finish(t, Thrown(e))
            /\ UNCHANGED token
    /\ UNCHANGED <<messages, loading, refreshing, account, domains, isTokenValid,
                   password, messageContents, pagination>>
    /\ UNCHANGED <<localStorage, viewVars>>
    /\ Quiet

\* ------------------------------------------------- the store: createAccount

\* fault: the account committed whatever the token call did
CommitAlways(res, data) == Some(data)

\* the state after createAccount's awaited getToken: the account is committed
\* when the token call returned
CommitAccount(res, data) == IF res.kind = "return" THEN Some(data) ELSE account

CreateAccount(t) ==
    /\ At(t, "createAccount", "entry")
    /\ IF domains = << >>
       THEN /\ Await(t, [TopOf(t) EXCEPT !.pc = "await fetchDomains"], "fetchDomains", << >>)
            /\ UNCHANGED loading
       ELSE /\ loading' = TRUE
            /\ Goto(t, [TopOf(t) EXCEPT !.pc = "POST /accounts"])
    /\ UNCHANGED <<messages, refreshing, account, domains, token, isTokenValid,
                   password, messageContents, pagination>>
    /\ UNCHANGED <<localStorage, viewVars>>
    /\ Quiet
    /\ NoReply

CreateAccountAfterDomains(t) ==
    /\ At(t, "createAccount", "await fetchDomains")
    /\ IF TopOf(t).res.kind = "throw"
       THEN /\ Finish(t, TopOf(t).res)
            /\ UNCHANGED loading
       ELSE /\ loading' = TRUE
            /\ Goto(t, [TopOf(t) EXCEPT !.pc = "POST /accounts"])
    /\ UNCHANGED <<messages, refreshing, account, domains, token, isTokenValid,
                   password, messageContents, pagination>>
    /\ UNCHANGED <<localStorage, viewVars>>
    /\ Quiet
    /\ NoReply

\* fault: a createAccount whose failed creation request leaves loading set
CreateAccountResponseNoFinally(t) ==
    /\ Idle
    /\ At(t, "createAccount", "POST /accounts")
    /\ LET a == TopOf(t).arg
           address == Address(a.username, a.selectedDomain)
       IN  \/ /\ reply' = Reply("POST /accounts", "ok", Some(ServerAccount(address)))
              /\ Await(t, [TopOf(t) EXCEPT !.pc = "await getToken",
                                           !.data = Some(ServerAccount(address))],
                       "getToken", [address |-> address, password |-> a.password])
           \/ \E e \in HttpFailures :
                /\ reply' = Reply("POST /accounts", e, Null)
                /\ Finish(t, Thrown(e))
    /\ UNCHANGED <<messages, loading, refreshing, account, domains, token, isTokenValid,
                   password, messageContents, pagination>>
    /\ UNCHANGED <<localStorage, viewVars>>
    /\ Quiet

CreateAccountResponse(t) ==
    /\ Idle
    /\ At(t, "createAccount", "POST /accounts")
    /\ LET a == TopOf(t).arg
           address == Address(a.username, a.selectedDomain)
       IN  \/ /\ reply' = Reply("POST /accounts", "ok", Some(ServerAccount(address)))
              /\ Await(t, [TopOf(t) EXCEPT !.pc = "await getToken",
                                           !.data = Some(ServerAccount(address))],
                       "getToken", [address |-> address, password |-> a.password])
              /\ UNCHANGED loading
           \/ \E e \in HttpFailures :
                /\ reply' = Reply("POST /accounts", e, Null)
                /\ loading' = FALSE
                /\ Finish(t, Thrown(e))
    /\ UNCHANGED <<messages, refreshing, account, domains, token, isTokenValid,
                   password, messageContents, pagination>>
    /\ UNCHANGED <<localStorage, viewVars>>
    /\ Quiet

CreateAccountAfterToken(t) ==
    /\ At(t, "createAccount", "await getToken")
    /\ LET res == TopOf(t).res
           data == Val(TopOf(t).data)
       IN  /\ account' = CommitAccount(res, [address |-> data.address, id |-> data.id])
           /\ loading' = FALSE
           /\ Finish(t, IF res.kind = "throw" THEN res ELSE Returned(data))
    /\ UNCHANGED <<messages, refreshing, domains, token, isTokenValid,
                   password, messageContents, pagination>>
    /\ UNCHANGED <<localStorage, viewVars>>
    /\ Quiet
    /\ NoReply


\* ------------------------------------------------- the store: fetchMessages

\* data['hydra:totalItems'] || 0
TotalOrZero(total) == IF IsNull(total) THEN 0 ELSE Val(total)

\* fault: a loop that fetches the detail of every message of the page
NextInList(list, i, cache) == IF i <= Len(list) THEN i ELSE 0

\* the loop over the fetched page: the first message at or after position i
\* whose id is no key of messageContents (0: none is left)
NextUncached(list, i, cache) ==
    LET todo == {j \in i..Len(list) : list[j] \notin DOMAIN cache}
    IN  IF todo = {} THEN 0 ELSE CHOOSE j \in todo : \A k \in todo : j <= k

\* fault: a cache that holds the latest detail only
MapSetAlone(cache, id, content) == [k \in {id} |-> content]

\* messageContents.set(id, content)
MapSet(cache, id, content) ==
    [k \in DOMAIN cache \cup {id} |-> IF k = id THEN content ELSE cache[k]]

\* the rest of fetchMessages once the page is in place: fetch the next detail
\* that is not cached, or leave through the finally block
FetchMessagesLoop(t, f, i, cache) ==
    LET j == NextUncached(f.list, i, cache)
    IN  IF j = 0
        THEN /\ refreshing' = FALSE
             /\ Finish(t, ReturnedUndefined)
        ELSE /\ Await(t, [f EXCEPT !.pc = "await fetchMessageDetail", !.idx = j],
                      "fetchMessageDetail", f.list[j])
             /\ UNCHANGED refreshing

FetchMessages(t) ==
    /\ At(t, "fetchMessages", "entry")
    /\ refreshing' = TRUE
    /\ Goto(t, [TopOf(t) EXCEPT !.pc = "GET /messages"])
    /\ UNCHANGED <<messages, loading, account, domains, token, isTokenValid,
                   password, messageContents, pagination>>
    /\ UNCHANGED <<localStorage, viewVars>>
    /\ Quiet
    /\ NoReply

\* fault: a fetchMessages that stores the received summaries and total but
\* leaves the page number to a later step
FetchMessagesResponseTornPage(t) ==
    /\ Idle
    /\ At(t, "fetchMessages", "GET /messages")
    /\ \/ \E page \in Pagefuls :
            /\ reply' = Reply("GET /messages", "ok",
                              Some([members |-> page.members, totalItems |-> page.totalItems]))
            /\ messages' = page.members
            /\ pagination' = [pagination EXCEPT !.total = TotalOrZero(page.totalItems)]
            /\ FetchMessagesLoop(t, [TopOf(t) EXCEPT !.list = page.members], 1, messageContents)
       \/ \E e \in HttpFailures :
            /\ reply' = Reply("GET /messages", e, Null)
            /\ refreshing' = FALSE
            /\ Finish(t, Thrown(e))
            /\ UNCHANGED <<messages, pagination>>
    /\ UNCHANGED <<loading, account, domains, token, isTokenValid, password,
                   messageContents>>
    /\ UNCHANGED <<localStorage, viewVars>>
    /\ Quiet

FetchMessagesResponse(t) ==
    /\ Idle
    /\ At(t, "fetchMessages", "GET /messages")
    /\ \/ \E page \in Pagefuls :
          LET members == page.members
              total == page.totalItems
          IN
            /\ reply' = Reply("GET /messages", "ok",
                              Some([members |-> members, totalItems |-> total]))
            /\ messages' = members
            /\ pagination' = [pagination EXCEPT !.total = TotalOrZero(total),
                                                !.page = TopOf(t).arg]
            /\ FetchMessagesLoop(t, [TopOf(t) EXCEPT !.list = members], 1, messageContents)
       \/ \E e \in HttpFailures :
            /\ reply' = Reply("GET /messages", e, Null)
            /\ refreshing' = FALSE
            /\ Finish(t, Thrown(e))
            /\ UNCHANGED <<messages, pagination>>
    /\ UNCHANGED <<loading, account, domains, token, isTokenValid, password,
                   messageContents>>
    /\ UNCHANGED <<localStorage, viewVars>>
    /\ Quiet

FetchMessagesAfterDetail(t) ==
    /\ At(t, "fetchMessages", "await fetchMessageDetail")
    /\ LET f == TopOf(t)
           id == f.list[f.idx]
       IN  IF f.res.kind = "throw"
           THEN /\ refreshing' = FALSE
                /\ Finish(t, f.res)
                /\ UNCHANGED messageContents
           ELSE /\ messageContents' = MapSet(messageContents, id, Val(f.res.val))
                /\ FetchMessagesLoop(t, f, f.idx + 1, messageContents')
    /\ UNCHANGED <<messages, loading, account, domains, token, isTokenValid,
                   password, pagination>>
    /\ UNCHANGED <<localStorage, viewVars>>
    /\ Quiet
    /\ NoReply

\* ------------------------------------------------- the store: fetchMessageDetail

FetchMessageDetail(t) ==
    /\ At(t, "fetchMessageDetail", "entry")
    /\ Goto(t, [TopOf(t) EXCEPT !.pc = "GET /messages/id"])
    /\ UNCHANGED <<storeVars, localStorage, viewVars>>
    /\ Quiet
    /\ NoReply

FetchMessageDetailResponse(t) ==
    /\ Idle
    /\ At(t, "fetchMessageDetail", "GET /messages/id")
    /\ \/ /\ reply' = Reply("GET /messages/id", "ok", Some(ServerDetail(TopOf(t).arg)))
          /\ Finish(t, Returned(ServerDetail(TopOf(t).arg)))
       \/ \E e \in HttpFailures :
            /\ reply' = Reply("GET /messages/id", e, Null)
            /\ Finish(t, Thrown(e))
    /\ UNCHANGED <<storeVars, localStorage, viewVars>>
    /\ Quiet

\* ------------------------------------------------- the store: checkToken

CheckToken(t) ==
    /\ At(t, "checkToken", "entry")
    /\ IF IsNull(token) \/ IsNull(account)
       THEN Finish(t, Returned(FALSE))
       ELSE Goto(t, [TopOf(t) EXCEPT !.pc = "GET /me"])
    /\ UNCHANGED <<storeVars, localStorage, viewVars>>
    /\ Quiet
    /\ NoReply

\* fault: any response taken for a valid token, whatever its status
ProbeAnyResponse(outcome) == outcome # "net"

\* what checkToken makes of the probe: response.ok, or false when fetch rejects
ProbeResult(outcome) == outcome = "ok"

CheckTokenResponse(t) ==
    /\ Idle
    /\ At(t, "checkToken", "GET /me")
    /\ \E outcome \in {"ok"} \cup HttpFailures :
        /\ reply' = Reply("GET /me", outcome, Null)
        /\ isTokenValid' = ProbeResult(outcome)
        /\ Finish(t, Returned(ProbeResult(outcome)))
    /\ UNCHANGED <<messages, loading, refreshing, account, domains, token,
                   password, messageContents, pagination>>
    /\ UNCHANGED <<localStorage, viewVars>>
    /\ Quiet

\* ------------------------------------------------- the store: deleteAccount

DeleteAccount(t) ==
    /\ At(t, "deleteAccount", "entry")
    /\ IF IsNull(account) \/ IsNull(token)
       THEN Finish(t, ReturnedUndefined)
       ELSE Goto(t, [TopOf(t) EXCEPT !.pc = "DELETE /accounts/id"])
    /\ UNCHANGED <<storeVars, localStorage, viewVars>>
    /\ Quiet
    /\ NoReply

\* fault: response.ok taken for the deletion
DeletedWhenOk(status) == status \in {200, 204}

\* response.status === 204
Deleted(status) == status = 204

DeleteAccountResponse(t) ==
    /\ Idle
    /\ At(t, "deleteAccount", "DELETE /accounts/id")
    /\ \/ \E status \in Statuses :
            /\ reply' = Reply("DELETE /accounts/id", "status", Some(status))
            /\ IF Deleted(status)
               THEN /\ clearAccountData
                    /\ Finish(t, Returned(TRUE))
               ELSE /\ Finish(t, Returned(FALSE))
                    /\ UNCHANGED <<account, token, messages, localStorage>>
       \/ /\ reply' = Reply("DELETE /accounts/id", "net", Null)
          /\ Finish(t, Thrown("net"))
          /\ UNCHANGED <<account, token, messages, localStorage>>
    /\ UNCHANGED <<loading, refreshing, domains, isTokenValid, password,
                   messageContents, pagination>>
    /\ UNCHANGED viewVars
    /\ Quiet



\* ------------------------------------------------- callers of the store

\* a caller starts op(arg) as a new task and awaits it; it keeps the
\* pagination it read before the call
Call(t, op, arg) ==
    /\ Idle
    /\ FreeSlot(t)
    /\ tasks' = [tasks EXCEPT ![t] =
                    <<[Frame("caller", op) EXCEPT !.pc = "await call",
                                                  !.data = Some(pagination)],
                      Frame(op, arg)>>]
    /\ UNCHANGED <<storeVars, localStorage, viewVars>>
    /\ Quiet
    /\ NoReply

\* the awaited call has returned or thrown: the caller is done
CallerResumes(t) ==
    /\ At(t, "caller", "await call")
    /\ Finish(t, TopOf(t).res)
    /\ UNCHANGED <<storeVars, localStorage, viewVars>>
    /\ Quiet
    /\ NoReply

CallFetchDomains(t) == Call(t, "fetchDomains", << >>)

CallCreateAccount(t) ==
    \E u \in Usernames, p \in Passwords, d \in DomainNames :
        Call(t, "createAccount", [username |-> u, password |-> p, selectedDomain |-> d])

CallGetToken(t) ==
    \E u \in Usernames, d \in DomainNames, p \in Passwords :
        Call(t, "getToken", [address |-> Address(u, d), password |-> p])

CallFetchMessages(t) == \E page \in Pages : Call(t, "fetchMessages", page)

CallCheckToken(t) == Call(t, "checkToken", << >>)

CallDeleteAccount(t) == Call(t, "deleteAccount", << >>)

CallSaveToLocalStorage ==
    /\ Idle
    /\ saveToLocalStorage
    /\ UNCHANGED <<storeVars, tasks, viewVars>>
    /\ Quiet
    /\ NoReply

CallLoadFromLocalStorage ==
    /\ Idle
    /\ IF IsNull(localStorage)
       THEN UNCHANGED <<account, token>>
       ELSE loadFromLocalStorage
    /\ UNCHANGED <<messages, loading, refreshing, domains, isTokenValid, password,
                   messageContents, pagination>>
    /\ UNCHANGED <<localStorage, tasks, viewVars>>
    /\ Quiet
    /\ NoReply

CallClearAccountData ==
    /\ Idle
    /\ clearAccountData
    /\ UNCHANGED <<loading, refreshing, domains, isTokenValid, password,
                   messageContents, pagination>>
    /\ UNCHANGED <<tasks, viewVars>>
    /\ Quiet
    /\ NoReply

\* ------------------------------------------------- the view

\* a click: the view is mounted, nothing is running, and no confirmation
\* dialog covers the page
Modal == \E t \in Slots : At(t, "handleDeleteAccount", "confirm")
UserCan == phase = "mounted" /\ Idle /\ ~Modal

\* a handler or callback starts as a new task
Start(t, op, arg) ==
    /\ FreeSlot(t)
    /\ tasks' = [tasks EXCEPT ![t] = <<Frame(op, arg)>>]

\* const { username, password } = mailStore.generateRandomAccount(), assigned to the form
generateRandomAccount ==
    \E u \in Usernames, p \in Passwords :
        /\ username' = u
        /\ formPassword' = p

\* fault: an initializeRandomAccount that leaves the form as it is
keepForm == UNCHANGED formVars

initializeRandomAccount ==
    IF Len(domains) > 0
    THEN /\ selectedDomain' = domains[1].domain
         /\ generateRandomAccount
    ELSE UNCHANGED formVars

\* timers that handlers still in progress may yet start
TimersToCome ==
    Cardinality({t \in Slots :
        Live(t) /\ tasks[t][1].op \in {"onMounted", "handleCreateAccount"}})

\* window.setInterval returns a handle not in use
NewHandle == CHOOSE h \in 1..(MaxTimers + 1) :
                /\ h \notin intervals
                /\ messageInterval # Some(h)
                /\ \A k \in 1..(h - 1) : k \in intervals \/ messageInterval = Some(k)

startMessagePolling ==
    /\ messageInterval' = Some(NewHandle)
    /\ intervals' = intervals \cup {NewHandle}

\* the setInterval callback: mailStore.fetchMessages(), not awaited
PollTick(t) ==
    /\ Idle
    /\ intervals # {}
    /\ FreeSlot(t)
    /\ tasks' = [tasks EXCEPT ![t] =
                    <<[Frame("setInterval callback", << >>) EXCEPT !.pc = "await call"],
                      Frame("fetchMessages", 1)>>]
    /\ UNCHANGED <<storeVars, localStorage, viewVars>>
    /\ Quiet
    /\ NoReply

\* the promise the callback dropped settles
PollSettled(t) ==
    /\ At(t, "setInterval callback", "await call")
    /\ Finish(t, TopOf(t).res)
    /\ UNCHANGED <<storeVars, localStorage, viewVars>>
    /\ Quiet
    /\ NoReply

\* ---- onMounted
Mount(t) ==
    /\ phase = "setup"
    /\ Idle
    /\ Start(t, "onMounted", << >>)
    /\ phase' = "mounted"
    /\ UNCHANGED <<storeVars, localStorage>>
    /\ UNCHANGED <<formVars, refreshDisabled, cooldown, currentPage, timerVars>>
    /\ Quiet
    /\ NoReply

OnMounted(t) ==
    /\ At(t, "onMounted", "entry")
    /\ Await(t, [TopOf(t) EXCEPT !.pc = "await fetchDomains"], "fetchDomains", << >>)
    /\ UNCHANGED <<storeVars, localStorage, viewVars>>
    /\ Quiet
    /\ NoReply

\* selectedDomain.value = account?.address.split('@')[1] || domains[0].domain,
\* for the account just loaded; Null when domains[0] is undefined (a TypeError)
SavedDomain(acc) ==
    IF ~IsNull(acc) THEN Some(DomainPart(Val(acc).address))
    ELSE IF Len(domains) > 0 THEN Some(domains[1].domain)
    ELSE Null

OnMountedAfterDomains(t) ==
    /\ At(t, "onMounted", "await fetchDomains")
    /\ IF TopOf(t).res.kind = "throw"
       THEN /\ Finish(t, ReturnedUndefined)
            /\ UNCHANGED <<account, token, formVars>>
       ELSE IF IsNull(LoadedForm)
       THEN /\ initializeRandomAccount
            /\ Finish(t, ReturnedUndefined)
            /\ UNCHANGED <<account, token>>
       ELSE /\ loadFromLocalStorage
            /\ username' = Val(LoadedForm).username
            /\ formPassword' = Val(LoadedForm).password
            /\ IF IsNull(SavedDomain(account'))
               THEN /\ Finish(t, ReturnedUndefined)
                    /\ UNCHANGED selectedDomain
               ELSE /\ selectedDomain' = Val(SavedDomain(account'))
                    /\ Await(t, [TopOf(t) EXCEPT !.pc = "await checkToken"],
                             "checkToken", << >>)
    /\ UNCHANGED <<messages, loading, refreshing, domains, isTokenValid, password,
                   messageContents, pagination>>
    /\ UNCHANGED <<localStorage>>
    /\ UNCHANGED <<refreshDisabled, cooldown, currentPage, phase, timerVars>>
    /\ Quiet
    /\ NoReply

OnMountedAfterCheck(t) ==
    /\ At(t, "onMounted", "await checkToken")
    /\ IF TopOf(t).res = Returned(TRUE)
       THEN /\ Await(t, [TopOf(t) EXCEPT !.pc = "await fetchMessages"], "fetchMessages", 1)
            /\ UNCHANGED <<account, token, messages, localStorage, formVars>>
       ELSE /\ clearAccountData
            /\ initializeRandomAccount
            /\ Finish(t, ReturnedUndefined)
    /\ UNCHANGED <<loading, refreshing, domains, isTokenValid, password,
                   messageContents, pagination>>
    /\ UNCHANGED <<refreshDisabled, cooldown, currentPage, phase, timerVars>>
    /\ Quiet
    /\ NoReply

OnMountedAfterMessages(t) ==
    /\ At(t, "onMounted", "await fetchMessages")
    /\ IF TopOf(t).res.kind = "throw"
       THEN UNCHANGED timerVars
       ELSE startMessagePolling
    /\ Finish(t, ReturnedUndefined)
    /\ UNCHANGED <<storeVars, localStorage>>
    /\ UNCHANGED <<formVars, refreshDisabled, cooldown, currentPage, phase>>
    /\ Quiet
    /\ NoReply

\* ---- onUnmounted
Unmount ==
    /\ phase = "mounted"
    /\ Idle
    /\ phase' = "unmounted"
    /\ intervals' = IF IsNull(messageInterval) THEN intervals
                    ELSE intervals \ {Val(messageInterval)}
    /\ UNCHANGED <<storeVars, localStorage, tasks>>
    /\ UNCHANGED <<formVars, refreshDisabled, cooldown, currentPage, messageInterval>>
    /\ Quiet
    /\ NoReply

\* ---- handleCreateAccount
ClickCreateAccount(t) ==
    /\ UserCan
    /\ IsNull(account)
    /\ selectedDomain # ""
    /\ ~loading
    /\ Cardinality(intervals) + TimersToCome < MaxTimers
    /\ Start(t, "handleCreateAccount", << >>)
    /\ UNCHANGED <<storeVars, localStorage, viewVars>>
    /\ Quiet
    /\ NoReply

HandleCreateAccount(t) ==
    /\ At(t, "handleCreateAccount", "entry")
    /\ Await(t, [TopOf(t) EXCEPT !.pc = "await createAccount",
                                 !.data = Some(formPassword)], "createAccount",
             [username |-> username, password |-> formPassword,
              selectedDomain |-> selectedDomain])
    /\ UNCHANGED <<storeVars, localStorage, viewVars>>
    /\ Quiet
    /\ NoReply

HandleCreateAccountAfterCreate(t) ==
    /\ At(t, "handleCreateAccount", "await createAccount")
    /\ IF TopOf(t).res.kind = "throw"
       THEN /\ notice' = "create failed"
            /\ Finish(t, ReturnedUndefined)
       ELSE /\ Await(t, [TopOf(t) EXCEPT !.pc = "await getToken"], "getToken",
                     [address |-> Val(TopOf(t).res.val).address, password |-> formPassword])
            /\ Quiet
    /\ UNCHANGED <<storeVars, localStorage, viewVars>>
    /\ NoReply

HandleCreateAccountAfterToken(t) ==
    /\ At(t, "handleCreateAccount", "await getToken")
    /\ IF TopOf(t).res.kind = "throw"
       THEN /\ notice' = "create failed"
            /\ Finish(t, ReturnedUndefined)
            /\ UNCHANGED localStorage
       ELSE /\ saveToLocalStorage
            /\ Goto(t, [TopOf(t) EXCEPT !.pc = "clipboard"])
            /\ Quiet
    /\ UNCHANGED <<storeVars, viewVars>>
    /\ NoReply

\* copyAddress() has settled (it catches its own failure)
HandleCreateAccountCopied(t) ==
    /\ Idle
    /\ At(t, "handleCreateAccount", "clipboard")
    /\ notice' = "created"
    /\ startMessagePolling
    /\ Finish(t, ReturnedUndefined)
    /\ UNCHANGED <<storeVars, localStorage>>
    /\ UNCHANGED <<formVars, refreshDisabled, cooldown, currentPage, phase>>
    /\ NoReply

\* ---- handleDeleteAccount
ClickDeleteAccount(t) ==
    /\ UserCan
    /\ ~IsNull(account)
    /\ FreeSlot(t)
    /\ tasks' = [tasks EXCEPT ![t] =
                    <<[Frame("handleDeleteAccount", << >>) EXCEPT !.pc = "confirm"]>>]
    /\ UNCHANGED <<storeVars, localStorage, viewVars>>
    /\ Quiet
    /\ NoReply

ConfirmDelete(t) ==
    /\ Idle
    /\ At(t, "handleDeleteAccount", "confirm")
    /\ Await(t, [TopOf(t) EXCEPT !.pc = "await deleteAccount"], "deleteAccount", << >>)
    /\ UNCHANGED <<storeVars, localStorage, viewVars>>
    /\ Quiet
    /\ NoReply

CancelDelete(t) ==
    /\ Idle
    /\ At(t, "handleDeleteAccount", "confirm")
    /\ notice' = "delete cancelled"
    /\ Finish(t, ReturnedUndefined)
    /\ UNCHANGED <<storeVars, localStorage, viewVars>>
    /\ NoReply

HandleDeleteAccountAfterDelete(t) ==
    /\ At(t, "handleDeleteAccount", "await deleteAccount")
    /\ IF TopOf(t).res.kind = "throw"
       THEN /\ notice' = "delete failed"
            /\ UNCHANGED <<username, formPassword>>
       ELSE /\ generateRandomAccount
            /\ notice' = "deleted"
    /\ Finish(t, ReturnedUndefined)
    /\ UNCHANGED <<storeVars, localStorage>>
    /\ UNCHANGED <<selectedDomain, refreshDisabled, cooldown, currentPage, phase, timerVars>>
    /\ NoReply

\* ---- handleManualRefresh
ClickRefresh(t) ==
    /\ UserCan
    /\ ~IsNull(account)
    /\ ~refreshDisabled
    /\ ~refreshing
    /\ Start(t, "handleManualRefresh", << >>)
    /\ UNCHANGED <<storeVars, localStorage, viewVars>>
    /\ Quiet
    /\ NoReply

HandleManualRefresh(t) ==
    /\ At(t, "handleManualRefresh", "entry")
    /\ IF refreshDisabled
       THEN /\ Finish(t, ReturnedUndefined)
            /\ UNCHANGED <<refreshDisabled, currentPage>>
       ELSE /\ refreshDisabled' = TRUE
            /\ currentPage' = 1
            /\ Await(t, [TopOf(t) EXCEPT !.pc = "await fetchMessages"], "fetchMessages", 1)
    /\ UNCHANGED <<storeVars, localStorage>>
    /\ UNCHANGED <<formVars, cooldown, phase, timerVars>>
    /\ Quiet
    /\ NoReply

HandleManualRefreshAfterMessages(t) ==
    /\ At(t, "handleManualRefresh", "await fetchMessages")
    /\ IF TopOf(t).res.kind = "throw"
       THEN /\ Finish(t, TopOf(t).res)
            /\ UNCHANGED cooldown
       ELSE /\ cooldown' = TRUE
            /\ Finish(t, ReturnedUndefined)
    /\ UNCHANGED <<storeVars, localStorage>>
    /\ UNCHANGED <<formVars, refreshDisabled, currentPage, phase, timerVars>>
    /\ Quiet
    /\ NoReply

\* the setTimeout callback of handleManualRefresh
CooldownExpires ==
    /\ Idle
    /\ cooldown
    /\ cooldown' = FALSE
    /\ refreshDisabled' = FALSE
    /\ UNCHANGED <<storeVars, localStorage, tasks>>
    /\ UNCHANGED <<formVars, currentPage, phase, timerVars>>
    /\ Quiet
    /\ NoReply

\* ---- handlePageChange
PageCount == IF pagination.total = 0 THEN 1
             ELSE (pagination.total + pagination.pageSize - 1) \div pagination.pageSize

ClickPage(t) ==
    /\ UserCan
    /\ ~IsNull(account)
    /\ \E page \in 1..PageCount :
        /\ page # currentPage
        /\ currentPage' = page
        /\ Start(t, "handlePageChange", page)
    /\ UNCHANGED <<storeVars, localStorage>>
    /\ UNCHANGED <<formVars, refreshDisabled, cooldown, phase, timerVars>>
    /\ Quiet
    /\ NoReply

HandlePageChange(t) ==
    /\ At(t, "handlePageChange", "entry")
    /\ Await(t, [TopOf(t) EXCEPT !.pc = "await fetchMessages"], "fetchMessages", TopOf(t).arg)
    /\ UNCHANGED <<storeVars, localStorage, viewVars>>
    /\ Quiet
    /\ NoReply

HandlePageChangeAfterMessages(t) ==
    /\ At(t, "handlePageChange", "await fetchMessages")
    /\ Finish(t, TopOf(t).res)
    /\ UNCHANGED <<storeVars, localStorage, viewVars>>
    /\ Quiet
    /\ NoReply

\* ------------------------------------------------- initial state

\* what an earlier session of the create flow can have left in localStorage
EarlierSnapshots ==
    LET a == Address("u1", "d1")
    IN  {Some([account |-> Some(ServerAccount(a)), token |-> Some(ServerToken(a)),
               username |-> LocalPart(a), password |-> ""])}

Init ==
    /\ messages = << >>
    /\ loading = FALSE
    /\ refreshing = FALSE
    /\ account = Null
    /\ domains = << >>
    /\ token = Null
    /\ isTokenValid = FALSE
    /\ password = ""
    /\ messageContents = << >>
    /\ pagination = [page |-> 1, pageSize |-> 10, total |-> 0]
    /\ localStorage \in {Null} \cup EarlierSnapshots
    /\ tasks = [t \in Slots |-> << >>]
    /\ username = ""
    /\ formPassword = ""
    /\ selectedDomain = ""
    /\ refreshDisabled = FALSE
    /\ messageInterval = Null
    /\ intervals = {}
    /\ cooldown = FALSE
    /\ currentPage = 1
    /\ phase = "setup"
    /\ notice = ""
    /\ reply = Null

\* ------------------------------------------------- the steps of the store

DomainsStep(t) == FetchDomains(t) \/ FetchDomainsResponse(t)

CheckStep(t) == CheckToken(t) \/ CheckTokenResponse(t)

AccountStep(t) ==
    \/ GetToken(t) \/ GetTokenResponse(t)
    \/ CreateAccount(t) \/ CreateAccountAfterDomains(t)
    \/ CreateAccountResponse(t) \/ CreateAccountAfterToken(t)

RemovalStep(t) == DeleteAccount(t) \/ DeleteAccountResponse(t)

MessageStep(t) ==
    \/ FetchMessages(t) \/ FetchMessagesResponse(t) \/ FetchMessagesAfterDetail(t)
    \/ FetchMessageDetail(t) \/ FetchMessageDetailResponse(t)

StoreStep(t) ==
    \/ DomainsStep(t) \/ CheckStep(t) \/ AccountStep(t) \/ RemovalStep(t)
    \/ MessageStep(t)

\* ------------------------------------------------- the application: the
\* view drives the store.  Spec is the life of an account (mount, create,
\* poll, delete, unmount); InboxSpec is the reading of a restored mailbox
\* (mount, poll, refresh, page change, unmount).

MountStep(t) ==
    \/ Mount(t) \/ OnMounted(t) \/ OnMountedAfterDomains(t)
    \/ OnMountedAfterCheck(t) \/ OnMountedAfterMessages(t)

PollStep(t) == PollTick(t) \/ PollSettled(t)

CreateStep(t) ==
    \/ ClickCreateAccount(t) \/ HandleCreateAccount(t) \/ HandleCreateAccountAfterCreate(t)
    \/ HandleCreateAccountAfterToken(t) \/ HandleCreateAccountCopied(t)

DeleteStep(t) ==
    \/ ClickDeleteAccount(t) \/ ConfirmDelete(t) \/ CancelDelete(t)
    \/ HandleDeleteAccountAfterDelete(t)

RefreshStep(t) ==
    \/ ClickRefresh(t) \/ HandleManualRefresh(t) \/ HandleManualRefreshAfterMessages(t)

PageStep(t) ==
    \/ ClickPage(t) \/ HandlePageChange(t) \/ HandlePageChangeAfterMessages(t)

Next ==
    \/ \E t \in Slots :
        StoreStep(t) \/ MountStep(t) \/ PollStep(t) \/ CreateStep(t) \/ DeleteStep(t)
    \/ Unmount

Spec == Init /\ [][Next]_vars

InboxNext ==
    \/ \E t \in Slots :
        DomainsStep(t) \/ CheckStep(t) \/ MessageStep(t) \/ MountStep(t) \/ PollStep(t) \/ RefreshStep(t) \/ PageStep(t)
    \/ CooldownExpires
    \/ Unmount

InboxSpec == Init /\ [][InboxNext]_vars

\* ------------------------------------------------- the store on its own:
\* any caller, any order.  SessionSpec calls the account operations,
\* MailboxSpec the message operations.

SessionNext ==
    \/ \E t \in Slots :
        \/ DomainsStep(t) \/ CheckStep(t) \/ AccountStep(t) \/ RemovalStep(t)
        \/ CallerResumes(t)
        \/ CallFetchDomains(t) \/ CallCreateAccount(t) \/ CallGetToken(t)
        \/ CallCheckToken(t) \/ CallDeleteAccount(t)
    \/ CallSaveToLocalStorage
    \/ CallLoadFromLocalStorage
    \/ CallClearAccountData

SessionSpec == Init /\ [][SessionNext]_vars

MailboxNext ==
    \/ \E t \in Slots :
        \/ MessageStep(t) \/ RemovalStep(t)
        \/ CallerResumes(t)
        \/ CallFetchMessages(t) \/ CallDeleteAccount(t)
    \/ CallLoadFromLocalStorage
    \/ CallClearAccountData

MailboxSpec == Init /\ [][MailboxNext]_vars

\* SerialSpec: the message operations called one after the other, a call
\* starting only when no other is in progress
Alone == \A t \in Slots : ~Live(t)

SerialCall(t) == Alone /\ (CallFetchMessages(t) \/ CallDeleteAccount(t))

SerialNext ==
    \/ \E t \in Slots :
        \/ MessageStep(t) \/ RemovalStep(t)
        \/ CallerResumes(t)
        \/ SerialCall(t)
    \/ CallLoadFromLocalStorage
    \/ CallClearAccountData

SerialSpec == Init /\ [][SerialNext]_vars

\* FlagsSpec: createAccount called at any time, fetchMessages only while no
\* other fetchMessages call is in progress
Fetching == {t \in Slots : \E i \in 1..Len(tasks[t]) : tasks[t][i].op = "fetchMessages"}

SoleFetchMessages(t) == Fetching = {} /\ CallFetchMessages(t)

FlagsNext ==
    \E t \in Slots :
        \/ DomainsStep(t) \/ AccountStep(t) \/ MessageStep(t)
        \/ CallerResumes(t)
        \/ CallCreateAccount(t)
        \/ SoleFetchMessages(t)

FlagsSpec == Init /\ [][FlagsNext]_vars

\* ------------------------------------------------- properties

\* task t took the step, and its call at the top of the stack ended in it
Ended(t) == tasks'[t] # tasks[t] /\ Len(tasks'[t]) < Len(tasks[t])

\* what the call that ended handed to the frame that awaited it
Handed(t) == Top(tasks'[t]).res

\* the frame of task t below the top one is a call of op
Under(t, op) == Len(tasks[t]) >= 2 /\ tasks[t][Len(tasks[t]) - 1].op = op

\* the caller of task t has received the result of its call of op
Resumed(t, op) == At(t, "caller", "await call") /\ TopOf(t).arg = op

\* C1: in every reachable state of the store, under every interleaving of
\* createAccount, getToken, checkToken, deleteAccount, clearAccountData,
\* saveToLocalStorage and loadFromLocalStorage at their await points, an
\* active account implies a held token.
AccountHasToken == ~IsNull(account) => ~IsNull(token)

\* createAccount has just returned the active account while another call is
\* in progress
AccountHasTokenWitness ==
    /\ ~IsNull(account)
    /\ \E t \in Slots :
        /\ Resumed(t, "createAccount")
        /\ TopOf(t).res.kind = "return"
        /\ \E u \in Slots : u # t /\ Live(u)

\* C2: createAccount issues the token request only in the step in which the
\* account-creation request succeeded, and commits the account only once the
\* token request has succeeded: the call sets account if and only if both
\* requests succeeded, in that order.  When either fails the error reaches
\* the caller and account is left as it was.  Beside createAccount only
\* loadFromLocalStorage makes an account active.
CreateAccountOrder ==
    [][/\ \A t \in Slots :
            /\ (At(t, "createAccount", "POST /accounts") /\ tasks'[t] # tasks[t]) =>
                    /\ account' = account
                    /\ IF Val(reply').outcome = "ok"
                       THEN /\ Val(reply').req = "POST /accounts"
                            /\ Len(tasks'[t]) = Len(tasks[t]) + 1
                            /\ Top(tasks'[t]).op = "getToken"
                       ELSE /\ Ended(t)
                            /\ Handed(t).kind = "throw"
            /\ (Live(t) /\ TopOf(t).op = "createAccount"
                    /\ Len(tasks'[t]) = Len(tasks[t]) + 1
                    /\ Top(tasks'[t]).op = "getToken") =>
                    /\ At(t, "createAccount", "POST /accounts")
                    /\ (Got("POST /accounts"))'
                    /\ Val(reply').outcome = "ok"
            /\ (At(t, "getToken", "POST /token") /\ Under(t, "createAccount")
                    /\ tasks'[t] # tasks[t]) =>
                    /\ account' = account
                    /\ Ended(t)
                    /\ (Handed(t).kind = "return") <=>
                            (Val(reply').outcome = "ok" /\ ~IsNull(Val(reply').body))
            /\ At(t, "createAccount", "await getToken") =>
                    /\ Ended(t)
                    /\ IF TopOf(t).res.kind = "return"
                       THEN /\ account' = TopOf(t).data
                            /\ ~IsNull(token)
                            /\ Handed(t) = Returned(Val(TopOf(t).data))
                       ELSE /\ account' = account
                            /\ Handed(t) = TopOf(t).res
       /\ (account' # account /\ ~IsNull(account')) =>
            \/ \E t \in Slots : At(t, "createAccount", "await getToken")
            \/ /\ Idle
               /\ ~IsNull(localStorage)
               /\ account' = Val(localStorage).account
      ]_vars

\* the token request of a createAccount call has failed and the call has
\* thrown: no account is active
CreateAccountOrderWitness ==
    /\ IsNull(account)
    /\ \E t \in Slots :
        /\ Resumed(t, "createAccount")
        /\ TopOf(t).res \in {Thrown("no token"), Thrown("http"), Thrown("net")}
        /\ \E u \in Slots : At(u, "getToken", "POST /token")

\* C5: checkToken never signals an error.  Whatever the probe request does
\* and whatever the state of the store (no token and no account included) it
\* returns a boolean, and it returns false for every transport failure and
\* every non-success response.
CheckTokenNeverThrows ==
    [][\A t \in Slots :
        /\ (At(t, "checkToken", "entry") /\ (IsNull(token) \/ IsNull(account))) => Ended(t)
        /\ (At(t, "checkToken", "GET /me") /\ tasks'[t] # tasks[t]) => Ended(t)
        /\ ((At(t, "checkToken", "entry") \/ At(t, "checkToken", "GET /me")) /\ Ended(t)) =>
            /\ Handed(t).kind = "return"
            /\ Handed(t) \in {Returned(TRUE), Returned(FALSE)}
            /\ At(t, "checkToken", "entry") => Handed(t) = Returned(FALSE)
            /\ (At(t, "checkToken", "GET /me") /\ Val(reply').outcome # "ok") =>
                    Handed(t) = Returned(FALSE)
      ]_vars

\* the probe met a non-success response and checkToken returned false
CheckTokenNeverThrowsWitness ==
    /\ Got("GET /me")
    /\ Val(reply).outcome = "http"
    /\ \E t \in Slots : Resumed(t, "checkToken") /\ TopOf(t).res = Returned(FALSE)

\* C6: when fetchDomains fails (non-success status or transport failure) the
\* error propagates and the cached domains are unchanged; when it succeeds
\* the cached domains are exactly the members of the response, in their
\* order, and nothing of the previous sequence is left.
DomainsReplacedWholesale ==
    [][\A t \in Slots :
        (At(t, "fetchDomains", "GET /domains") /\ tasks'[t] # tasks[t]) =>
            /\ Ended(t)
            /\ (Got("GET /domains"))'
            /\ IF Val(reply').outcome = "ok"
               THEN LET members == Val(Val(reply').body)
                    IN  /\ Len(domains') = Len(members)
                        /\ \A i \in 1..Len(members) :
                                /\ domains'[i].domain = members[i].domain
                                /\ domains'[i].id = members[i].id
                        /\ Handed(t) = Returned(domains')
               ELSE /\ domains' = domains
                    /\ Handed(t).kind = "throw"
      ]_vars

\* a fetchDomains call has failed while domains were cached
DomainsReplacedWholesaleWitness ==
    /\ Got("GET /domains")
    /\ Val(reply).outcome \in HttpFailures
    /\ domains # << >>
    /\ \E t \in Slots : Resumed(t, "fetchDomains") /\ TopOf(t).res.kind = "throw"

\* C3: a deleteAccount call made with an active account and token sends the
\* DELETE request.  When the response status is 204 the call returns true and
\* in that step account and token become null, messages empty and the
\* persisted snapshot absent; for every other status it returns false and
\* the step leaves account, token, messages and the snapshot as they were.
DeleteOnlyOnNoContent ==
    [][\A t \in Slots :
        /\ (At(t, "deleteAccount", "entry") /\ ~IsNull(account) /\ ~IsNull(token)) =>
                (At(t, "deleteAccount", "DELETE /accounts/id"))'
        /\ (At(t, "deleteAccount", "DELETE /accounts/id") /\ tasks'[t] # tasks[t]
                /\ Val(reply').outcome = "status") =>
                /\ Ended(t)
                /\ IF Val(Val(reply').body) = 204
                   THEN /\ Handed(t) = Returned(TRUE)
                        /\ IsNull(account') /\ IsNull(token')
                        /\ messages' = << >>
                        /\ IsNull(localStorage')
                   ELSE /\ Handed(t) = Returned(FALSE)
                        /\ UNCHANGED <<account, token, messages, localStorage>>
      ]_vars

\* a deletion was refused with status 401: the account, its messages and
\* its snapshot are still there and the call returned false
DeleteOnlyOnNoContentWitness ==
    /\ Got("DELETE /accounts/id")
    /\ Val(reply).body = Some(401)
    /\ ~IsNull(account) /\ ~IsNull(token)
    /\ messages # << >>
    /\ ~IsNull(localStorage)
    /\ \E t \in Slots : Resumed(t, "deleteAccount") /\ TopOf(t).res = Returned(FALSE)

\* C4 (the part that holds): the step of fetchMessages(page) that receives
\* the page sets pagination.page to the requested page and pagination.total
\* to the total the server reported (0 when it reported none), and the rest
\* of the call leaves pagination alone: a call that succeeds ends with both.
PaginationSetOnSuccess ==
    [][\A t \in Slots :
        /\ (At(t, "fetchMessages", "GET /messages") /\ tasks'[t] # tasks[t]
                /\ Val(reply').outcome = "ok") =>
                LET total == Val(Val(reply').body).totalItems
                IN  /\ pagination'.page = TopOf(t).arg
                    /\ pagination'.total = IF IsNull(total) THEN 0 ELSE Val(total)
                    /\ pagination'.pageSize = pagination.pageSize
        /\ (At(t, "fetchMessages", "await fetchMessageDetail")
                \/ At(t, "fetchMessageDetail", "entry")
                \/ At(t, "fetchMessageDetail", "GET /messages/id")) =>
                pagination' = pagination
      ]_vars

\* C4 (the part that fails): when a fetchMessages call signals an error to
\* its caller, pagination is what the caller read before the call.
PaginationKeptOnFailure ==
    \A t \in Slots :
        (Resumed(t, "fetchMessages") /\ TopOf(t).res.kind = "throw") =>
            pagination = Val(TopOf(t).data)

\* C7: across fetchMessages calls that do not overlap, the detail of a
\* message is requested only while its id is no key of the cache, a detail
\* arrives only for an id that is no key yet (at most one successful fetch
\* per id), and a call whose page holds cached messages only ends with the
\* page response: no detail request, and the cache unchanged.
DetailFetchedOnce ==
    [][\A t \in Slots :
        /\ (Len(tasks'[t]) = Len(tasks[t]) + 1
                /\ Top(tasks'[t]).op = "fetchMessageDetail") =>
                Top(tasks'[t]).arg \notin DOMAIN messageContents'
        /\ At(t, "fetchMessageDetail", "entry") =>
                TopOf(t).arg \notin DOMAIN messageContents
        /\ (At(t, "fetchMessageDetail", "GET /messages/id") /\ tasks'[t] # tasks[t]
                /\ Val(reply').outcome = "ok") =>
                TopOf(t).arg \notin DOMAIN messageContents
        /\ (At(t, "fetchMessages", "GET /messages") /\ tasks'[t] # tasks[t]
                /\ Val(reply').outcome = "ok"
                /\ \A i \in 1..Len(Val(Val(reply').body).members) :
                        Val(Val(reply').body).members[i] \in DOMAIN messageContents) =>
                /\ Ended(t)
                /\ Handed(t) = ReturnedUndefined
                /\ messageContents' = messageContents
      ]_vars

\* a later fetchMessages received a page of two messages, both cached, and
\* returned at once
DetailFetchedOnceWitness ==
    /\ Got("GET /messages")
    /\ Val(reply).outcome = "ok"
    /\ Len(Val(Val(reply).body).members) = 2
    /\ \A i \in 1..2 : Val(Val(reply).body).members[i] \in DOMAIN messageContents
    /\ \E t \in Slots : Resumed(t, "fetchMessages") /\ TopOf(t).res = ReturnedUndefined

RequestsCarryToken ==
    [][\A t \in Slots :
        /\ (At(t, "fetchMessages", "entry")
                /\ (At(t, "fetchMessages", "GET /messages"))') => ~IsNull(token)
        /\ (At(t, "fetchMessageDetail", "entry")
                /\ (At(t, "fetchMessageDetail", "GET /messages/id"))') => ~IsNull(token)
      ]_vars

\* C10: the snapshot that handleCreateAccount persists holds the password it
\* passed to createAccount.
PersistedPasswordIsPlaintext ==
    [][\A t \in Slots :
        (At(t, "handleCreateAccount", "await getToken") /\ TopOf(t).res.kind = "return") =>
            /\ ~IsNull(localStorage')
            /\ Val(localStorage').password = Val(TopOf(t).data)
      ]_vars

\* onMounted of task t resumes with the result of checkToken, which is false
CheckFailed(t) == At(t, "onMounted", "await checkToken") /\ TopOf(t).res = Returned(FALSE)

\* what every rehydration with an invalid token does, whatever the domains
ClearedOnInvalidToken(t) ==
    /\ tasks'[t] = << >>
    /\ IsNull(account') /\ IsNull(token')
    /\ messages' = << >>
    /\ IsNull(localStorage')
    /\ UNCHANGED timerVars
    /\ \A u \in Slots : u # t => tasks'[u] = tasks[u]

RehydrationStartsPolling ==
    [][\A t \in Slots :
        /\ (At(t, "onMounted", "await checkToken") /\ TopOf(t).res = Returned(TRUE)) =>
                /\ Len(tasks'[t]) = 2
                /\ Top(tasks'[t]).op = "fetchMessages"
                /\ tasks'[t][1].pc = "await fetchMessages"
        /\ At(t, "onMounted", "await fetchMessages") =>
                /\ tasks'[t] = << >>
                /\ ~IsNull(messageInterval')
                /\ Val(messageInterval') \in intervals'
                /\ Val(messageInterval') \notin intervals
      ]_vars

\* C13: once the view is unmounted no polling timer it started is active.
PollingStopsAtTeardown == phase = "unmounted" => intervals = {}

\* the call of op at the top of the stack of task t ends in this step
Ends(t, op) == Live(t) /\ TopOf(t).op = op /\ Ended(t)

DetailFailureNotFatal ==
    [][\A t \in Slots :
        (At(t, "fetchMessages", "await fetchMessageDetail")
                /\ TopOf(t).res.kind = "throw") =>
            LET f == TopOf(t)
                j == NextUncached(f.list, f.idx + 1, messageContents)
            IN  IF j = 0
                THEN Ended(t) /\ Handed(t) = ReturnedUndefined
                ELSE /\ Len(tasks'[t]) = Len(tasks[t]) + 1
                     /\ Top(tasks'[t]).op = "fetchMessageDetail"
                     /\ Top(tasks'[t]).arg = f.list[j]
      ]_vars

\* C16: deleteAccount called while account or token is null sends no
\* request, changes no state and returns the boolean false.
DeleteWithoutAccountIsFalse ==
    [][\A t \in Slots :
        (At(t, "deleteAccount", "entry") /\ (IsNull(account) \/ IsNull(token))) =>
            /\ Ended(t)
            /\ Handed(t) = Returned(FALSE)
            /\ UNCHANGED <<storeVars, localStorage>>
      ]_vars

\* a fetchMessages call of task t has started and has not returned or thrown
FetchInFlight(t) ==
    \E i \in 1..Len(tasks[t]) : tasks[t][i].op = "fetchMessages" /\ tasks[t][i].pc # "entry"

\* C17: refreshing is true in every state in which a fetchMessages call is
\* in flight, overlapping calls included.
RefreshingWhileFetching == (\E t \in Slots : FetchInFlight(t)) => refreshing

\* C18: isTokenValid implies that a token and an account are held.
ValidTokenIsHeld == isTokenValid => (~IsNull(token) /\ ~IsNull(account))

\* C19: whenever account is null and no store operation is in flight,
\* messages is empty.
NoMessagesWithoutAccount ==
    (IsNull(account) /\ \A t \in Slots : ~Live(t)) => messages = << >>

\* C20: the cooldown of the manual refresh always ends: while refreshDisabled
\* is set, either the handler that set it is still in progress or the timer
\* that clears it is pending.
CooldownEnds ==
    refreshDisabled =>
        \/ cooldown
        \/ \E t \in Slots : Live(t) /\ tasks[t][1].op = "handleManualRefresh"

\* C21: fetchMessages commits a page in one step, whatever calls overlap:
\* every step that changes messages or pagination either delivers a summary
\* response to a fetchMessages call and sets messages to its summaries,
\* pagination.total to its total (0 when it has none) and pagination.page to
\* the page that call asked for, or empties messages and leaves pagination.
PageCommittedAtomically ==
    [][(messages' # messages \/ pagination' # pagination) =>
        \/ /\ ~IsNull(reply')
           /\ Val(reply').req = "GET /messages"
           /\ Val(reply').outcome = "ok"
           /\ \E t \in Slots :
                /\ At(t, "fetchMessages", "GET /messages")
                /\ tasks'[t] # tasks[t]
                /\ messages' = Val(Val(reply').body).members
                /\ pagination' = [pagination EXCEPT
                        !.total = TotalOrZero(Val(Val(reply').body).totalItems),
                        !.page = TopOf(t).arg]
        \/ /\ messages' = << >>
           /\ pagination' = pagination
      ]_vars

\* a summary response for one page has just been committed while a call for
\* another page is still waiting for its response
PageCommittedAtomicallyWitness ==
    /\ Got("GET /messages")
    /\ Val(reply).outcome = "ok"
    /\ messages = Val(Val(reply).body).members
    /\ pagination.page = 2
    /\ \E u \in Slots : At(u, "fetchMessages", "GET /messages") /\ TopOf(u).arg = 1

\* C22: whenever handleDeleteAccount shows the success notification and puts
\* a fresh random pair in the form, deleteAccount returned true and the store
\* holds no account.
DeleteReportsRealDeletion ==
    [][\A t \in Slots :
        (At(t, "handleDeleteAccount", "await deleteAccount") /\ notice' = "deleted") =>
            /\ TopOf(t).res = Returned(TRUE)
            /\ IsNull(account')
      ]_vars

\* C23: when handleCreateAccount finishes, by success or by a failure of one
\* of its remote calls, and the store holds an account, the persisted
\* snapshot holds that account and its token and the polling timer is running.
CreateFlowAllOrNothing ==
    [][\A t \in Slots :
        (Ends(t, "handleCreateAccount") /\ ~IsNull(account')) =>
            /\ ~IsNull(localStorage')
            /\ Val(localStorage').account = account'
            /\ Val(localStorage').token = token'
            /\ ~IsNull(messageInterval')
            /\ Val(messageInterval') \in intervals'
      ]_vars

\* C24: in the paginating view, when a fetchMessages call returns without
\* error and no other fetchMessages call is in flight, the store's
\* pagination.page is the view's currentPage.
StoredPageIsDisplayedPage ==
    [][\A t \in Slots :
        (Ends(t, "fetchMessages") /\ Handed(t).kind = "return" /\ Fetching \ {t} = {}) =>
            pagination'.page = currentPage'
      ]_vars

====
